---- MODULE Spec2Model ----
(***************************************************************************)
(* IOS-XE Upgrade Manager: the job table, the scheduler loop of main.py    *)
(* and the copy / verify / install / remove-inactive workers, as a state   *)
(* machine.  One action per handler or per worker step; a worker step is   *)
(* one device interaction together with the record-store writes that       *)
(* follow it before the next device interaction.                           *)
(***************************************************************************)
EXTENDS Integers, Sequences, FiniteSets, TLC

\* ------------------------------------------------------------------ bounds
\* jobs in the table / install jobs a schedule request may create / worker threads
MaxJobs == 2
MaxScheduled == 1
MaxThreads == 2
MaxTime == 2
\* UTC offset (hours) of the server's local zone, used by now.astimezone()
LocalOffset == 0
\* tokens a device prints during one streamed command
MaxStream == 4
\* maxlen of event_queue (10000 in event_bus.py) and events published in a run
QueueMaxLen == 3
MaxEvents == 5
\* characters of a version string
MaxVersionLen == 5
\* request-handling threads inside run_precheck at the same time
MaxRuns == 2
\* how many times the operator changes the stored credentials
MaxRotations == 1

\* --------------------------------------------------------------- constants
\* spec.md 4.6: staleness threshold of the scheduler, in hours
StaleThreshold == 1

Devices == {"d1", "d2"}
Images == {"imgA"}
NoImage == ""
NoneV == "None"
\* a local variable of a worker that has not been assigned yet
Unset == "unset"

\* job_type values written by the handlers
JobTypes == {"IMAGE_COPY", "IMAGE_VERIFY", "INSTALL_REMOVE_INACTIVE", "UPGRADE", "ON_DEMAND"}

\* what `verify /md5` can print (32 hex digits, either case)
RawHashes == {"ab", "AB", "cd"}
\* RepositoryModel.get_image_hash: no row for the filename, or the digest as uploaded
ExpectedHashes == {NoneV, "ab", "AB"}
\* time-zone offsets a request can name
TzOffsets == {1}

VARIABLES
    now,        \* the current instant (UTC, hours)
    inventory,  \* inventory table: address -> device record
    jobs,       \* jobs table: sequence of job records, job id = index, each with
                \* the content of the file at its log_file_path
    threads,    \* every worker thread ever started, in start order
    sweep,      \* run_scheduler: rows still to process in this sweep, its `now`,
                \* and the last line it printed
    stream,     \* one call of SSHClient.execute_command_stream and the channel it reads
    sink,       \* event_bus.event_queue and one reader of GET /api/events
    disc,       \* what the last POST /api/discover did for one address
    engine,     \* one PreCheckEngine: the rule it is at and its self.results
    pre,        \* the prechecks table and the threads inside run_precheck
    config      \* the credentials in config.json and in the copy that upgrade.py
                \* loaded when it was imported, as generations 0, 1, ...

\* the state outside the record store and the worker threads
ioVars == <<stream, sink, disc, engine, pre, config>>

vars == <<now, inventory, jobs, threads, sweep, ioVars>>

\* no streamed command is running
\* no credentials were read yet
NoCreds == -1

NoCall ==
    [pc |-> "idle", prompts |-> FALSE, buffer |-> <<>>, seen |-> <<>>, replies |-> <<>>,
     result |-> NoneV]

\* the fields of a device record that discovery reads from the device
Fields == {"hw", "sys", "fs", "version"}
\* the fields the structured query may fail to return with usable content
Optional == {"fs", "version"}

\* how a device answers one discovery: NETCONF connect, hardware and system info
\* returned, the optional fields NETCONF leaves out, SSH connect (`show version`
\* answers whenever SSH connects)
Answers ==
    {a \in [nc : BOOLEAN, info : BOOLEAN, missing : SUBSET Optional, ssh : BOOLEAN] :
        /\ a.info => a.nc
        /\ ~a.info => a.missing = {}}

\* a device that answers nothing
NoAnswers == [nc |-> FALSE, info |-> FALSE, missing |-> {}, ssh |-> FALSE]

\* the discovered columns of a device that was entered through the CLI path
CliFacts(ans) ==
    [version |-> "v1", free_space_mb |-> "fs1", rommon_version |-> "r1",
     netconf_state |-> IF ans.nc THEN "Enabled" ELSE "Disabled"]

\* no discover request was made yet
NoDiscover == [ip |-> NoneV, ans |-> NoAnswers, sessions |-> 0, ncGot |-> {}, cliGot |-> {},
               result |-> NoneV, creds |-> NoCreds, entries |-> <<>>]

\* no client is connected to GET /api/events
NoReader == [pc |-> "off", started |-> 0, last_index |-> 0, received |-> <<>>]

\* the inputs of the rule an engine ran last (none yet)
NoInputs == [current |-> <<>>, target |-> <<>>, path |-> NoneV, available |-> <<>>, size |-> 0]

\* a PreCheckEngine on which run_all_checks was not called yet
NoEngine == [pc |-> "idle", filename |-> "", results |-> <<>>, last |-> NoInputs]

\* a request-handling thread that is not inside run_precheck
NoRun == [pc |-> "idle", ip |-> NoneV, filename |-> NoImage, current |-> <<>>, results |-> <<>>,
          creds |-> NoCreds]

\* ------------------------------------------------------------------ helpers

\* str.lower() on a digest
Lower(h) == IF h = "AB" THEN "ab" ELSE h

\* datetime.now(): naive local wall-clock time
LocalNow == now + LocalOffset

\* schedule_time as stored: an aware ISO string, a naive ISO string or text that
\* datetime.fromisoformat rejects
NaiveTime(w) == [fmt |-> "naive", wall |-> w, off |-> 0]
AwareTime(w, o) == [fmt |-> "aware", wall |-> w, off |-> o]
InvalidTime == [fmt |-> "invalid", wall |-> 0, off |-> 0]

\* request inputs: the schedule_time text and the timezone name
TimeInputs == {[ok |-> TRUE, wall |-> w] : w \in 0..MaxTime} \cup {[ok |-> FALSE, wall |-> 0]}
TzInputs == {[ok |-> TRUE, off |-> o] : o \in TzOffsets} \cup {[ok |-> FALSE, off |-> 0]}

\* fromisoformat + ZoneInfo + replace(tzinfo) + isoformat; on any exception the
\* request text is kept as it came
LocalizeSchedule(t, tz) ==
    IF ~t.ok THEN InvalidTime
    ELSE IF ~tz.ok THEN NaiveTime(t.wall)
    ELSE AwareTime(t.wall, tz.off)

\* the instant a stored schedule time denotes (naive = server local time)
Instant(s) == IF s.fmt = "aware" THEN s.wall - s.off ELSE s.wall - LocalOffset

\* (mutant) the comparison of the sweep turned around
IsDue_Reversed(s, nowWall) ==
    IF s.fmt = "aware" THEN s.wall - s.off >= nowWall - LocalOffset
    ELSE s.wall >= nowWall

\* `schedule_time <= check_time` of the sweep, nowWall being the sweep's naive now
IsDue(s, nowWall) ==
    IF s.fmt = "aware" THEN s.wall - s.off <= nowWall - LocalOffset
    ELSE s.wall <= nowWall

JobIds == 1..Len(jobs)
ThreadIds == 1..Len(threads)

\* the header lines that create_job_logger and start_job write with mode 'w'
LogHeader(type) ==
    IF type = "INSTALL_REMOVE_INACTIVE" THEN "Job started" ELSE "Job Log Initialized"

\* a timestamped line written with mode 'a'; the log of a job is kept as its
\* header and, once a line was appended, the block of its entries
AppendLog(log) ==
    IF log # <<>> /\ log[Len(log)] = "entries" THEN log ELSE Append(log, "entries")

\* the jobs table and log files after a worker appended to the log of job j
Logged(js, j) == [js EXCEPT ![j].log = AppendLog(@)]

NewJob(ip, type, status, s) ==
    [ip |-> ip, type |-> type, status |-> status, sched |-> s, rescheduled |-> FALSE,
     log |-> <<LogHeader(type)>>, end_time |-> NoneV]

\* the dict that execute_install_command returns
InstallResult(success, status, error) == [success |-> success, status |-> status, error |-> error]

\* install_result before the install command returned
NoResult == InstallResult(Unset, Unset, Unset)

NewThread(j, ip, fn, image) ==
    [job |-> j, ip |-> ip, fn |-> fn,
     pc |-> CASE fn = "verify" -> "v_start" [] fn = "remove" -> "r_connect" [] OTHER -> "start",
     image |-> image, expected |-> Unset, actual |-> Unset, hashIssued |-> FALSE,
     ret |-> Unset, install_result |-> NoResult, creds |-> NoCreds, session |-> "none"]

\* a worker record after ssh.connect() returned True, and after ssh.disconnect()
Connect(th) == [th EXCEPT !.session = "open"]
Disconnect(th) == [th EXCEPT !.session = "none"]

\* (mutant) the UPDATE without its WHERE clause
SetStatus_All(js, j, status) == [k \in DOMAIN js |-> [js[k] EXCEPT !.status = status]]

\* UPDATE jobs SET status = ? WHERE job_id = ?
SetStatus(js, j, status) == [js EXCEPT ![j].status = status]

\* JobManager.update_job_status: end_time is passed for 'COMPLETED' and 'FAILED' only
UpdateJobStatus(js, j, status) ==
    IF status \in {"COMPLETED", "FAILED"}
    THEN [SetStatus(js, j, status) EXCEPT ![j].end_time = "timestamp"]
    ELSE SetStatus(js, j, status)

\* JobsModel.update_job_status(db, job_id, status, '\n'.join(log_output)) of
\* execute_upgrade: the text of the log lines goes into the end_time column
WriteFinalStatus(js, j, status) == [SetStatus(js, j, status) EXCEPT ![j].end_time = "log text"]

\* UPDATE inventory SET image_copied = ? WHERE ip_address = ?
SetCopied(inv, ip, v) ==
    IF inv[ip].present THEN [inv EXCEPT ![ip].image_copied = v] ELSE inv

\* UPDATE inventory SET image_verified = ? WHERE ip_address = ?
SetVerified(inv, ip, v) ==
    IF inv[ip].present THEN [inv EXCEPT ![ip].image_verified = v] ELSE inv

\* (mutant) the image another request named, whatever the device record holds
DeviceTargetImage_Requested(ip) == "imgA"

\* InventoryModel.get_device(...)['target_image'], '' when there is no row
DeviceTargetImage(ip) ==
    IF inventory[ip].present THEN inventory[ip].target_image ELSE NoImage

\* an address without a row in the inventory table
NoDevice ==
    [present |-> FALSE, target_image |-> NoImage, image_copied |-> "No", image_verified |-> "No",
     precheck_status |-> NoneV, precheck_details |-> NoneV, facts |-> CliFacts(NoAnswers)]

\* no bulk pre-check request inside its loop
NoBulk == [pc |-> "idle", ip |-> NoneV, device |-> NoDevice, results |-> <<>>]

\* ------------------------------------------------------------------- Init
Init ==
    /\ now = 0
    /\ inventory = [d \in Devices |->
            [present |-> (d = "d1"), target_image |-> NoImage,
             image_copied |-> "No", image_verified |-> "No",
             precheck_status |-> NoneV, precheck_details |-> NoneV,
             facts |-> CliFacts(NoAnswers)]]
    /\ jobs = <<>>
    /\ threads = <<>>
    /\ sweep = [rows |-> <<>>, now |-> 0, out |-> [msg |-> "started", job |-> 0]]
    /\ stream = NoCall
    /\ sink = [queue |-> <<>>, published |-> 0, reader |-> NoReader]
    /\ disc = NoDiscover
    /\ engine = NoEngine
    /\ pre = [table |-> <<>>, runs |-> [r \in 1..MaxRuns |-> NoRun], bulk |-> NoBulk]
    /\ config = [file |-> 0, imported |-> 0]

\* ---------------------------------------------------------------- operator
\* time passes
Tick ==
    /\ now < MaxTime
    /\ now' = now + 1
    /\ UNCHANGED <<inventory, jobs, threads, sweep, ioVars>>

\* (mutant) the UPDATE without the two status columns
AssignTargetImage_KeepStatus(inv, ip, img) ==
    IF ~inv[ip].present THEN [ok |-> FALSE, inv |-> inv]
    ELSE [ok |-> TRUE, inv |-> [inv EXCEPT ![ip].target_image = img]]

\* InventoryModel.set_target_image: False when there is no row for the address,
\* else one UPDATE of target_image, image_copied and image_verified
AssignTargetImage(inv, ip, img) ==
    IF ~inv[ip].present THEN [ok |-> FALSE, inv |-> inv]
    ELSE [ok |-> TRUE, inv |-> [inv EXCEPT ![ip] =
            [@ EXCEPT !.target_image = img, !.image_copied = "No", !.image_verified = "No"]]]

\* POST /api/devices/<ip>/set-target -> InventoryModel.set_target_image
SetTargetImage(ip, img) ==
    /\ img # NoImage
    /\ inventory' = AssignTargetImage(inventory, ip, img).inv
    /\ UNCHANGED <<now, jobs, threads, sweep, ioVars>>

\* POST /api/upgrade/schedule; t = NoneV-like input is hasTime = FALSE
ScheduleUpgrade(ip, image, hasTime, t, tz) ==
    /\ Len(jobs) < MaxJobs
    /\ Cardinality({k \in JobIds : jobs[k].type \in {"UPGRADE", "ON_DEMAND"}}) < MaxScheduled
    /\ image # NoImage
    /\ inventory[ip].present
    /\ LET j == Len(jobs) + 1
           s == IF hasTime THEN LocalizeSchedule(t, tz) ELSE NaiveTime(LocalNow)
           type == IF hasTime THEN "UPGRADE" ELSE "ON_DEMAND"
           status == IF hasTime THEN "Scheduled" ELSE "Pending"
       IN /\ jobs' = Append(jobs, NewJob(ip, type, status, s))
          /\ IF ~hasTime
             THEN /\ Len(threads) < MaxThreads
                  /\ threads' = Append(threads, NewThread(j, ip, "upgrade", image))
             ELSE threads' = threads
    /\ UNCHANGED <<now, inventory, sweep, ioVars>>

\* POST /api/jobs/<id>/cancel -> JobsModel.cancel_job
CancelJob(j) ==
    /\ jobs' = SetStatus(jobs, j, "Cancelled")
    /\ UNCHANGED <<now, inventory, threads, sweep, ioVars>>

\* POST /api/jobs/<id>/reschedule -> JobsModel.update_job_schedule
RescheduleJob(j, t, tz) ==
    /\ jobs' = [jobs EXCEPT ![j] =
            [@ EXCEPT !.sched = LocalizeSchedule(t, tz), !.status = "Scheduled",
                      !.rescheduled = TRUE]]
    /\ UNCHANGED <<now, inventory, threads, sweep, ioVars>>

\* --------------------------------------------------------------- scheduler
RECURSIVE ScheduledRows(_)
\* SELECT ... FROM jobs WHERE status = 'Scheduled', rows in insertion order
ScheduledRows(n) ==
    IF n = 0 THEN <<>>
    ELSE LET rest == ScheduledRows(n - 1)
         IN IF jobs[n].status = "Scheduled"
            THEN Append(rest, [job |-> n, ip |-> jobs[n].ip, sched |-> jobs[n].sched])
            ELSE rest

\* one pass of the while loop up to `now = datetime.now()`
SweepRead ==
    /\ sweep.rows = <<>>
    /\ sweep' = [sweep EXCEPT !.rows = ScheduledRows(Len(jobs)), !.now = LocalNow]
    /\ UNCHANGED <<now, inventory, jobs, threads, ioVars>>

\* the body of `for job in scheduled_jobs` for the row at the head; out is the
\* last line the iteration prints
SweepJob ==
    /\ sweep.rows # <<>>
    /\ LET row == Head(sweep.rows)
           image == DeviceTargetImage(row.ip)
           Done(msg) == sweep' = [sweep EXCEPT !.rows = Tail(@),
                                               !.out = [msg |-> msg, job |-> row.job]]
       IN IF row.sched.fmt = "invalid"
          THEN /\ Done("Invalid date format")
               /\ UNCHANGED <<jobs, threads>>
          ELSE IF ~IsDue(row.sched, sweep.now)
          THEN /\ Done("Checking Job")
               /\ UNCHANGED <<jobs, threads>>
          ELSE IF image # NoImage
          THEN /\ Len(threads) < MaxThreads
               /\ threads' = Append(threads, NewThread(row.job, row.ip, "upgrade", image))
               /\ jobs' = jobs
               /\ Done("Triggering scheduled upgrade")
          ELSE /\ jobs' = [SetStatus(jobs, row.job, "Failed") EXCEPT
                                ![row.job].end_time = "timestamp"]
               /\ threads' = threads
               /\ Done("No target image found")
    /\ UNCHANGED <<now, inventory, ioVars>>

\* ----------------------------------------------------------- install worker
\* execute_upgrade, lines 238-247 and 265: the log file opened with mode 'w' for
\* the header of the worker, then the first line of log()
InitializeLog(js, j) == [js EXCEPT ![j].log = AppendLog(<<"Upgrade Log">>)]

\* execute_upgrade, lines 227-265: the credentials of the module-level config,
\* JobsModel.update_job_status(db, job_id, 'Running'), the log file
U_Start(t) ==
    /\ threads[t].fn = "upgrade" /\ threads[t].pc = "start"
    /\ threads' = [threads EXCEPT ![t].pc = "connect", ![t].creds = config.imported]
    /\ jobs' = InitializeLog(SetStatus(jobs, threads[t].job, "Running"), threads[t].job)
    /\ UNCHANGED <<now, inventory, sweep, ioVars>>

\* the truth value a session call returned
Returned(b) == IF b THEN "True" ELSE "False"

\* an install worker moves to pc2 holding ret, what its last session call returned
Call(t, pc2, ret, session, js) ==
    /\ threads' = [threads EXCEPT ![t].pc = pc2, ![t].ret = ret, ![t].install_result = NoResult,
                                   ![t].session = session]
    /\ jobs' = Logged(js, threads[t].job)
    /\ UNCHANGED <<now, inventory, sweep, ioVars>>

\* execute_upgrade, lines 273-280: ssh.connect()
U_Connect(t) ==
    /\ threads[t].fn = "upgrade" /\ threads[t].pc = "connect"
    /\ \E ok \in BOOLEAN :
          IF ok THEN Call(t, "check", Returned(TRUE), "open", jobs)
          ELSE Call(t, "done", Unset, "none", WriteFinalStatus(jobs, threads[t].job, "Failed"))

\* (mutant) the presence check that does not stop the worker
U_Check_Proceed(t) ==
    /\ threads[t].fn = "upgrade" /\ threads[t].pc = "check"
    /\ \E exists \in BOOLEAN : Call(t, "save", Returned(exists), "open", jobs)

\* execute_upgrade, lines 282-290: ssh.check_file_exists(filesystem, image_filename)
U_Check(t) ==
    /\ threads[t].fn = "upgrade" /\ threads[t].pc = "check"
    /\ \E exists \in BOOLEAN :
          IF exists THEN Call(t, "save", Returned(TRUE), "open", jobs)
          ELSE Call(t, "done", Unset, "none", WriteFinalStatus(jobs, threads[t].job, "Failed"))

\* execute_upgrade, lines 292-299: ssh.save_config(), either result only logged
U_Save(t, saves) ==
    /\ threads[t].fn = "upgrade" /\ threads[t].pc = "save"
    /\ \E saved \in saves : Call(t, "install", Returned(saved), "open", jobs)

\* how execute_command_stream ends for the install command, and what the captured
\* output holds: a reload indicator, a failure indicator
StreamResults == {"completed", "failed", "exception"}
InstallOutputs == SUBSET {"reload", "failure"}

\* (mutant) execute_install_command without the reload branch
ExecuteInstallCommand_NoReload(result, output) ==
    IF result = "exception" THEN InstallResult("False", NoneV, "exception")
    ELSE IF result = "failed" THEN InstallResult("False", NoneV, "stream")
    ELSE IF "failure" \in output THEN InstallResult("False", NoneV, "returned error")
    ELSE InstallResult("True", NoneV, NoneV)

\* SSHClient.execute_install_command, lines 252-355
ExecuteInstallCommand(result, output) ==
    IF result = "exception" THEN InstallResult("False", NoneV, "exception")
    ELSE IF result = "failed"
    THEN (IF "reload" \in output THEN InstallResult("True", "RELOADING", NoneV)
          ELSE InstallResult("False", NoneV, "stream"))
    ELSE IF "failure" \in output THEN InstallResult("False", NoneV, "returned error")
    ELSE InstallResult("True", NoneV, NoneV)

\* execute_upgrade, lines 301-304: ssh.execute_install_command
U_Install(t, streams, outputs) ==
    /\ threads[t].fn = "upgrade" /\ threads[t].pc = "install"
    /\ \E result \in streams, output \in outputs :
          /\ threads' = [threads EXCEPT ![t].pc = "result", ![t].ret = Unset,
                                         ![t].install_result =
                                             ExecuteInstallCommand(result, output)]
          /\ jobs' = Logged(jobs, threads[t].job)
          /\ UNCHANGED <<now, inventory, sweep, ioVars>>

\* execute_upgrade, lines 306-321: the final status from install_result
U_Result(t) ==
    /\ threads[t].fn = "upgrade" /\ threads[t].pc = "result"
    /\ Call(t, "done", Unset, "none",
            WriteFinalStatus(jobs, threads[t].job,
                             IF threads[t].install_result.success = "True" THEN "Success" ELSE "Failed"))

\* execute_upgrade, lines 323-325: an exception inside the try block; the handler
\* does not call ssh.disconnect()
U_Except(t) ==
    /\ threads[t].fn = "upgrade"
    /\ threads[t].pc \in {"connect", "check", "save", "install"}
    /\ Call(t, "done", Unset, threads[t].session, WriteFinalStatus(jobs, threads[t].job, "Failed"))

\* one step of an install worker whose device answers from the given sets
InstallStep(t, saves, streams, outputs) ==
    \/ U_Start(t)
    \/ U_Connect(t)
    \/ U_Check(t)
    \/ U_Save(t, saves)
    \/ U_Install(t, streams, outputs)
    \/ U_Result(t)
    \/ U_Except(t)

\* a device whose save succeeds and whose install runs to completion
UpgradeStep(t) == InstallStep(t, {TRUE}, {"completed"}, {{}})

\* ------------------------------------------------------ copy / verify workers
\* ip_list of a bulk request
IpLists == {<<d>> : d \in Devices} \cup {<<a, b>> : a \in Devices, b \in Devices}

\* the image a bulk request uses for one address: the request's own, else the
\* device's target image
TargetFor(ip, g) == IF g # NoImage THEN g ELSE DeviceTargetImage(ip)

\* the addresses of the request that are not skipped
Resolvable(ips, g) == SelectSeq(ips, LAMBDA ip : TargetFor(ip, g) # NoImage)

\* POST /api/operations/copy (fn = "copy") and POST /api/operations/verify
\* (fn = "verify"): one Pending job and one worker thread per address
StartBulk(fn, type, ips, g) ==
    LET res == Resolvable(ips, g)
    IN /\ res # <<>>
       /\ Len(jobs) + Len(res) <= MaxJobs
       /\ Len(threads) + Len(res) <= MaxThreads
       /\ jobs' = jobs \o [i \in 1..Len(res) |->
                        NewJob(res[i], type, "Pending", NaiveTime(LocalNow))]
       /\ threads' = threads \o [i \in 1..Len(res) |->
                        NewThread(Len(jobs) + i, res[i], fn, TargetFor(res[i], g))]
       /\ UNCHANGED <<now, inventory, sweep, ioVars>>

StartCopyJob(ips, g) == StartBulk("copy", "IMAGE_COPY", ips, g)

StartVerifyJob(ips, g) == StartBulk("verify", "IMAGE_VERIFY", ips, g)

\* a worker thread becomes th and leaves the jobs table as js, the inventory as inv
Move(t, th, js, inv) ==
    /\ threads' = [threads EXCEPT ![t] = th]
    /\ jobs' = Logged(js, threads[t].job)
    /\ inventory' = inv
    /\ UNCHANGED <<now, sweep, ioVars>>

Goto(t, pc2) == [threads[t] EXCEPT !.pc = pc2]

\* execute_copy_job, lines 102-112: job_manager.update_job_status(job_id, "Running"),
\* then the credentials read from config.json
C_Start(t) ==
    /\ threads[t].fn = "copy" /\ threads[t].pc = "start"
    /\ Move(t, [Goto(t, "connect") EXCEPT !.creds = config.file],
            UpdateJobStatus(jobs, threads[t].job, "Running"), inventory)

\* execute_copy_job, lines 119-126: ssh.connect()
C_Connect(t) ==
    /\ threads[t].fn = "copy" /\ threads[t].pc = "connect"
    /\ \E ok \in BOOLEAN :
          IF ok THEN Move(t, Connect(Goto(t, "exists")), jobs, inventory)
          ELSE Move(t, Goto(t, "done"), UpdateJobStatus(jobs, threads[t].job, "Failed"), inventory)

\* execute_copy_job, lines 132-137: a file already there is only logged
C_Exists(t) ==
    /\ threads[t].fn = "copy" /\ threads[t].pc = "exists"
    /\ \E existed \in BOOLEAN : Move(t, Goto(t, "copy"), jobs, inventory)

\* execute_copy_job, lines 143-148 and 170-175: ssh.copy_file_from_http
C_Copy(t) ==
    /\ threads[t].fn = "copy" /\ threads[t].pc = "copy"
    /\ \E success \in BOOLEAN :
          IF success THEN Move(t, Goto(t, "present"), jobs, inventory)
          ELSE Move(t, Disconnect(Goto(t, "done")), UpdateJobStatus(jobs, threads[t].job, "Failed"),
                    inventory)

\* (mutant) the copy status written before the presence check is looked at
AfterPresenceCheck_Early(inv, ip, found) ==
    IF found THEN SetVerified(SetCopied(inv, ip, "Yes"), ip, "No") ELSE SetCopied(inv, ip, "Yes")

\* execute_copy_job, lines 157-169: the inventory after the presence check
AfterPresenceCheck(inv, ip, found) ==
    IF found THEN SetVerified(SetCopied(inv, ip, "Yes"), ip, "No") ELSE inv

\* execute_copy_job, lines 154-169: the presence check after the copy; on success
\* the two inventory updates and the call of execute_verify_job
C_Present(t) ==
    /\ threads[t].fn = "copy" /\ threads[t].pc = "present"
    /\ \E found \in BOOLEAN :
          IF found
          THEN Move(t, Disconnect(Goto(t, "v_start")), jobs,
                    AfterPresenceCheck(inventory, threads[t].ip, TRUE))
          ELSE Move(t, Disconnect(Goto(t, "done")), UpdateJobStatus(jobs, threads[t].job, "Failed"),
                    AfterPresenceCheck(inventory, threads[t].ip, FALSE))

\* execute_copy_job, lines 177-179: an exception inside the try block
C_Except(t) ==
    /\ threads[t].fn = "copy"
    /\ threads[t].pc \in {"connect", "exists", "copy", "present"}
    /\ Move(t, Goto(t, "done"), UpdateJobStatus(jobs, threads[t].job, "Failed"), inventory)

\* execute_verify_job, line 90: job_manager.update_job_status(job_id, "Running")
V_Start(t) ==
    /\ threads[t].pc = "v_start"
    /\ Move(t, [Goto(t, "v_connect") EXCEPT !.creds = config.file],
            UpdateJobStatus(jobs, threads[t].job, "Running"), inventory)

\* execute_verify_job, lines 102-109: ssh.connect()
V_Connect(t) ==
    /\ threads[t].pc = "v_connect"
    /\ \E ok \in BOOLEAN :
          IF ok THEN Move(t, Connect(Goto(t, "v_exists")), jobs, inventory)
          ELSE Move(t, Goto(t, "v_done"), UpdateJobStatus(jobs, threads[t].job, "Failed"), inventory)

\* execute_verify_job, lines 116-123: ssh.check_file_exists
V_Exists(t) ==
    /\ threads[t].pc = "v_exists"
    /\ \E found \in BOOLEAN :
          IF found THEN Move(t, Goto(t, "v_hash"), jobs, inventory)
          ELSE Move(t, Disconnect(Goto(t, "v_done")), UpdateJobStatus(jobs, threads[t].job, "Failed"),
                    SetVerified(SetCopied(inventory, threads[t].ip, "No"), threads[t].ip, "Failed"))

\* (mutant) the test for a missing hash dropped
HashKnown_Always(h) == TRUE

\* `if not expected_hash` of line 127, negated
HashKnown(h) == h # NoneV /\ h # ""

\* execute_verify_job, lines 125-135: RepositoryModel.get_image_hash; the
\* repository row is whatever the repository holds at that moment
V_Hash(t) ==
    /\ threads[t].pc = "v_hash"
    /\ \E h \in ExpectedHashes :
          IF ~HashKnown(h)
          THEN Move(t, Disconnect([threads[t] EXCEPT !.pc = "v_done", !.expected = h]),
                    UpdateJobStatus(jobs, threads[t].job, "Success"),
                    SetVerified(inventory, threads[t].ip, "No hash"))
          ELSE Move(t, [threads[t] EXCEPT !.pc = "v_md5", !.expected = h], jobs, inventory)

\* SSHClient.calculate_md5: None when the stream fails or prints no digest,
\* else the digest in lower case
CalculateMd5(raw) == IF raw = NoneV THEN NoneV ELSE Lower(raw)

\* (mutant) `result` initialised to True before the comparison
VerifyFinalStatus_ResultTrue(matched) == "COMPLETED"

\* the job status execute_verify_job ends with after the comparison: `result` is
\* assigned only on a match; reading it unassigned raises, and the handler of
\* lines 167-169 writes Failed
VerifyFinalStatus(matched) == IF matched THEN "COMPLETED" ELSE "Failed"

\* image_verified after the comparison, lines 146-156 and 158-160
VerifyFinalVerified(matched) == IF matched THEN "Yes" ELSE "Failed"

\* execute_verify_job, lines 141-169: `verify /md5` on the device, the
\* comparison and the writes that follow it; ssh.disconnect() of line 165 is
\* reached on a match only
V_Md5(t) ==
    /\ threads[t].pc = "v_md5"
    /\ \E raw \in RawHashes \cup {NoneV} :
          LET actual == CalculateMd5(raw)
              matched == actual # NoneV /\ Lower(actual) = Lower(threads[t].expected)
              th == [threads[t] EXCEPT !.pc = "v_done", !.actual = actual, !.hashIssued = TRUE]
              end == IF matched THEN Disconnect(th) ELSE th
              inv1 == SetVerified(inventory, threads[t].ip, VerifyFinalVerified(matched))
              inv2 == IF matched THEN SetCopied(inv1, threads[t].ip, "Yes") ELSE inv1
          IN Move(t, end, UpdateJobStatus(jobs, threads[t].job, VerifyFinalStatus(matched)), inv2)

\* execute_verify_job, lines 167-169: an exception inside the try block
V_Except(t) ==
    /\ threads[t].pc \in {"v_connect", "v_exists", "v_hash", "v_md5"}
    /\ Move(t, Goto(t, "v_done"), UpdateJobStatus(jobs, threads[t].job, "Failed"), inventory)

CopyStep(t) ==
    \/ C_Start(t)
    \/ C_Connect(t)
    \/ C_Exists(t)
    \/ C_Copy(t)
    \/ C_Present(t)
    \/ C_Except(t)

VerifyStep(t) ==
    \/ V_Start(t)
    \/ V_Connect(t)
    \/ V_Exists(t)
    \/ V_Hash(t)
    \/ V_Md5(t)
    \/ V_Except(t)

\* ------------------------------------------------- remove-inactive worker
\* POST /api/install-remove-inactive: JobManager.start_job creates each job with
\* status 'RUNNING' and one worker thread is started per address
InstallRemoveInactive(ips) ==
    /\ Len(jobs) + Len(ips) <= MaxJobs
    /\ Len(threads) + Len(ips) <= MaxThreads
    /\ jobs' = jobs \o [i \in 1..Len(ips) |->
                    NewJob(ips[i], "INSTALL_REMOVE_INACTIVE", "RUNNING", NaiveTime(LocalNow))]
    /\ threads' = threads \o [i \in 1..Len(ips) |->
                    NewThread(Len(jobs) + i, ips[i], "remove", NoImage)]
    /\ UNCHANGED <<now, inventory, sweep, ioVars>>

\* _run_install_remove_inactive_thread, lines 78-81 and 119-121: ssh.connect()
R_Connect(t) ==
    /\ threads[t].pc = "r_connect"
    /\ \E ok \in BOOLEAN :
          IF ok THEN Move(t, Connect(Goto(t, "r_command")), jobs, inventory)
          ELSE Move(t, Goto(t, "r_done"), UpdateJobStatus(jobs, threads[t].job, "FAILED"), inventory)

\* _run_install_remove_inactive_thread, lines 82-118: the streamed command and
\* the scan of its output for failure keywords
R_Command(t) ==
    /\ threads[t].pc = "r_command"
    /\ \E success \in BOOLEAN, has_error \in BOOLEAN :
          Move(t, Disconnect(Goto(t, "r_done")),
               UpdateJobStatus(jobs, threads[t].job,
                         IF success /\ ~has_error THEN "COMPLETED" ELSE "FAILED"),
               inventory)

\* _run_install_remove_inactive_thread, lines 123-125
R_Except(t) ==
    /\ threads[t].pc \in {"r_connect", "r_command"}
    /\ Move(t, Goto(t, "r_done"), UpdateJobStatus(jobs, threads[t].job, "FAILED"), inventory)

RemoveStep(t) ==
    \/ R_Connect(t)
    \/ R_Command(t)
    \/ R_Except(t)

\* ---------------------------------------------------------- streamed command
\* what a device prints, token by token: the two halves of the text a prompt
\* pattern matches, and the command-prompt marker
Alphabet == {"a", "b", "#"}

\* the prompt table of a call: one pattern and the reply mapped to it
PromptPattern == <<"a", "b">>
PromptReply == "y"

\* the number of places in text at which the pattern occurs
Occurrences(text) ==
    Cardinality({i \in 1..(Len(text) - 1) : SubSeq(text, i, i + 1) = PromptPattern})

\* re.search(pattern, output)
ReSearch(output) == Occurrences(output) > 0

\* output.strip().endswith('#')
EndsWithMarker(output) == output # <<>> /\ output[Len(output)] = "#"

\* execute_command_stream, lines 527-535: no connection returns False, else the
\* buffer is cleared and the command is written
StreamCall(prompts) ==
    /\ stream.pc = "idle"
    /\ \E connected \in BOOLEAN :
          stream' = IF connected
                    THEN [NoCall EXCEPT !.pc = "sleep", !.prompts = prompts]
                    ELSE [NoCall EXCEPT !.pc = "done", !.prompts = prompts, !.result = "False"]
    /\ UNCHANGED <<now, inventory, jobs, threads, sweep, sink, disc, engine, pre, config>>

\* the device prints one more token into the channel
DeviceEmit(tok) ==
    /\ stream.pc \in {"sleep", "poll"}
    /\ Len(stream.seen) + Len(stream.buffer) < MaxStream
    /\ stream' = [stream EXCEPT !.buffer = Append(@, tok)]
    /\ UNCHANGED <<now, inventory, jobs, threads, sweep, sink, disc, engine, pre, config>>

\* execute_command_stream, line 539: time.sleep(0.5)
StreamSleep ==
    /\ stream.pc = "sleep"
    /\ stream' = [stream EXCEPT !.pc = "poll"]
    /\ UNCHANGED <<now, inventory, jobs, threads, sweep, sink, disc, engine, pre, config>>

\* execute_command_stream, lines 546-551: the replies written after one chunk
RepliesAfter(table, output, replies) ==
    IF table /\ ReSearch(output) THEN Append(replies, PromptReply) ELSE replies

\* execute_command_stream, lines 540-556: recv_ready, read_channel, the scan of
\* the chunk against the prompt table and the test for the marker
StreamPoll ==
    /\ stream.pc = "poll"
    /\ IF stream.buffer = <<>>
       THEN stream' = [stream EXCEPT !.pc = "sleep"]
       ELSE LET output == stream.buffer
            IN stream' = [stream EXCEPT
                    !.buffer = <<>>,
                    !.seen = @ \o output,
                    !.replies = RepliesAfter(stream.prompts, output, @),
                    !.pc = IF EndsWithMarker(output) THEN "done" ELSE "sleep",
                    !.result = IF EndsWithMarker(output) THEN "True" ELSE @]
    /\ UNCHANGED <<now, inventory, jobs, threads, sweep, sink, disc, engine, pre, config>>

\* execute_command_stream, lines 559-562: the channel raises (connection lost)
StreamExcept ==
    /\ stream.pc \in {"sleep", "poll"}
    /\ stream' = [stream EXCEPT !.pc = "done", !.result = "False"]
    /\ UNCHANGED <<now, inventory, jobs, threads, sweep, sink, disc, engine, pre, config>>

\* the caller takes the result; the client is free for the next call
StreamReturn ==
    /\ stream.pc = "done"
    /\ stream' = NoCall
    /\ UNCHANGED <<now, inventory, jobs, threads, sweep, sink, disc, engine, pre, config>>

\* ------------------------------------------------------------------ event sink
\* the job ids events are published for
EventJobs == {"j1", "j2"}

\* deque.append with maxlen: the oldest entry is dropped when the queue is full
DequeAppend(q, e) == IF Len(q) < QueueMaxLen THEN Append(q, e) ELSE Append(Tail(q), e)

\* event_bus.emit_job_log; seq numbers the publishes in order
EmitJobLog(job) ==
    /\ sink.published < MaxEvents
    /\ sink' = [sink EXCEPT
            !.published = @ + 1,
            !.queue = DequeAppend(@, [seq |-> sink.published + 1, job |-> job])]
    /\ UNCHANGED <<now, inventory, jobs, threads, sweep, stream, disc, engine, pre, config>>

\* event_bus.get_events
GetEvents(start_index) ==
    IF start_index >= Len(sink.queue) THEN <<>>
    ELSE SubSeq(sink.queue, start_index + 1, Len(sink.queue))

\* stream_events / generate, line 102: last_index = len(event_queue)
ReaderStart ==
    /\ sink.reader.pc = "off"
    /\ sink' = [sink EXCEPT !.reader =
            [pc |-> "on", started |-> sink.published, last_index |-> Len(sink.queue),
             received |-> <<>>]]
    /\ UNCHANGED <<now, inventory, jobs, threads, sweep, stream, disc, engine, pre, config>>

\* generate, lines 104-113: one pass of the loop, every event yielded and counted
ReaderPoll ==
    /\ sink.reader.pc = "on"
    /\ LET events == GetEvents(sink.reader.last_index)
       IN sink' = [sink EXCEPT !.reader.received = @ \o events,
                               !.reader.last_index = @ + Len(events)]
    /\ UNCHANGED <<now, inventory, jobs, threads, sweep, stream, disc, engine, pre, config>>

\* the client closes the connection; the generator is dropped
ReaderStop ==
    /\ sink.reader.pc = "on"
    /\ sink' = [sink EXCEPT !.reader = NoReader]
    /\ UNCHANGED <<now, inventory, jobs, threads, sweep, stream, disc, engine, pre, config>>

\* ------------------------------------------------------------------ discovery
\* the discovered columns as the NETCONF path of discover_devices fills them:
\* fallback says the fallback SSH session was opened, svi that it returned
\* `show version`
NetconfFacts(ans, fallback, svi) ==
    [version |-> IF "version" \in ans.missing /\ ~svi THEN "Unknown" ELSE "v1",
     free_space_mb |-> IF "fs" \in ans.missing /\ ~fallback THEN NoneV ELSE "fs1",
     rommon_version |-> IF svi THEN "r1" ELSE "N/A",
     netconf_state |-> "Enabled"]

\* the device_data of lines 173-193 and 231-252 stored by INSERT OR REPLACE: the
\* discovered columns, and the operator's columns taken from the existing row
DeviceData(inv, ip, facts) ==
    [present |-> TRUE,
     target_image |-> IF inv[ip].present THEN inv[ip].target_image ELSE NoImage,
     image_copied |-> IF inv[ip].present THEN inv[ip].image_copied ELSE "No",
     image_verified |-> IF inv[ip].present THEN inv[ip].image_verified ELSE "No",
     precheck_status |-> IF inv[ip].present THEN inv[ip].precheck_status ELSE NoneV,
     precheck_details |-> IF inv[ip].present THEN inv[ip].precheck_details ELSE NoneV,
     facts |-> facts]

\* the entries discover_devices appends to `results` for one address: one after
\* add_device on the NETCONF path (lines 197-208), and one on the SSH path (lines
\* 254-270), which runs whenever netconf_success is False
OutcomeEntries(ans, stored1, stored2) ==
    (IF ans.info THEN <<IF stored1 THEN "success" ELSE "failed">> ELSE <<>>)
        \o (IF ans.info /\ stored1 THEN <<>>
            ELSE <<IF ans.ssh /\ stored2 THEN "success" ELSE "failed">>)

\* POST /api/discover for one address of ip_list; stored1 and stored2 are the
\* results of InventoryModel.add_device on the NETCONF path and on the SSH path
Discover(ip, ans, stored1, stored2) ==
    LET fallback == ans.info /\ ans.missing # {} /\ ans.ssh
        svi == fallback /\ "version" \in ans.missing
        netconf_success == ans.info /\ stored1
        cli == ~netconf_success /\ ans.ssh
        ncGot == IF ans.info THEN Fields \ ans.missing ELSE {}
        cliGot == (IF fallback THEN ans.missing ELSE {}) \cup (IF cli THEN Fields ELSE {})
        sessions == (IF ans.nc THEN 1 ELSE 0) + (IF fallback THEN 1 ELSE 0)
                        + (IF cli THEN 1 ELSE 0)
    IN /\ inventory' =
             IF netconf_success
             THEN [inventory EXCEPT ![ip] =
                        DeviceData(inventory, ip, NetconfFacts(ans, fallback, svi))]
             ELSE IF cli /\ stored2
             THEN [inventory EXCEPT ![ip] = DeviceData(inventory, ip, CliFacts(ans))]
             ELSE inventory
       /\ disc' = [ip |-> ip, ans |-> ans, sessions |-> sessions, ncGot |-> ncGot,
                   cliGot |-> cliGot,
                   result |-> IF netconf_success THEN "NETCONF"
                              ELSE IF cli /\ stored2 THEN "SSH" ELSE "failed",
                   creds |-> config.file,
                   entries |-> OutcomeEntries(ans, stored1, stored2)]
       /\ UNCHANGED <<now, jobs, threads, sweep, stream, sink, engine, pre, config>>

\* POST /api/bulk/precheck for one address, lines 58-158: the image status from
\* the Image Presence result, then the verdict and its detail text
RunPrecheck(ip, presence, status) ==
    /\ inventory[ip].present
    /\ inventory[ip].target_image # NoImage
    /\ LET inv1 == IF presence = "PASS" THEN SetCopied(inventory, ip, "Yes")
                   ELSE IF presence = "FAIL"
                   THEN SetVerified(SetCopied(inventory, ip, "No"), ip, "No")
                   ELSE inventory
       IN inventory' = [inv1 EXCEPT ![ip].precheck_status = status,
                                    ![ip].precheck_details =
                                        IF status = "Pass" THEN NoneV ELSE "details"]
    /\ UNCHANGED <<now, jobs, threads, sweep, ioVars>>

\* ------------------------------------------------------------ pre-check engine
\* a version string, as the characters the parser tells apart: digits, the dot,
\* and "b" for a run of other characters (the extension word after a final dot)
VersionAlphabet == {"0", "1", ".", "b"}
Digits == {"0", "1"}

\* the version strings of the model: "b" only as a prefix or as a suffix, no
\* leading dot
VersionStrings ==
    {s \in UNION {[1..n -> VersionAlphabet] : n \in 0..MaxVersionLen} :
        /\ \A i \in 2..(Len(s) - 1) : s[i] # "b"
        /\ s # <<>> => s[1] # "."}

\* the version strings a device record and a request hold in the runs of all rules
SampleVersions == {<<"1", ".", "0">>, <<"1", ".", "1">>, <<"b">>}

\* int(v) of a run of digits
RECURSIVE IntOf(_)
IntOf(ds) ==
    IF ds = <<>> THEN 0
    ELSE 10 * IntOf(SubSeq(ds, 1, Len(ds) - 1)) + (IF ds[Len(ds)] = "1" THEN 1 ELSE 0)

\* re.sub(r'(?i)\.(bin|spa|pkg)$', '', version_str)
CleanVersion(s) ==
    IF Len(s) >= 2 /\ s[Len(s) - 1] = "." /\ s[Len(s)] = "b"
    THEN SubSeq(s, 1, Len(s) - 2) ELSE s

\* the last index of the run of digits that starts at i
RECURSIVE DigitRunEnd(_, _)
DigitRunEnd(s, i) ==
    IF i + 1 <= Len(s) /\ s[i + 1] \in Digits THEN DigitRunEnd(s, i + 1) ELSE i

\* the greedy match of \d+(?:\.\d+)* at i, split at the dots and converted
RECURSIVE Components(_, _)
Components(s, i) ==
    LET j == DigitRunEnd(s, i)
    IN <<IntOf(SubSeq(s, i, j))>> \o
         (IF j + 2 <= Len(s) /\ s[j + 1] = "." /\ s[j + 2] \in Digits
          THEN Components(s, j + 2) ELSE <<>>)

\* re.search(r'(\d+(?:\.\d+)+)', clean_ver): the leftmost match, [] when none
RECURSIVE SearchFrom(_, _)
SearchFrom(s, i) ==
    IF i > Len(s) THEN <<>>
    ELSE IF s[i] \in Digits /\ Len(Components(s, i)) >= 2 THEN Components(s, i)
    ELSE SearchFrom(s, i + 1)

\* PreCheckEngine._parse_version
ParseVersion(s) == SearchFrom(CleanVersion(s), 1)

\* a < b on Python lists of integers
RECURSIVE ListLess(_, _)
ListLess(a, b) ==
    IF b = <<>> THEN FALSE
    ELSE IF a = <<>> THEN TRUE
    ELSE IF Head(a) # Head(b) THEN Head(a) < Head(b)
    ELSE ListLess(Tail(a), Tail(b))

\* one entry of self.results; the message is kept as the text it is built from
Result(name, grade, message) == [check_name |-> name, result |-> grade, message |-> message]

\* (mutant) rule 1 comparing the two strings only
CheckVersionDifference_Strings(results, current, target) ==
    Append(results, Result("Version Comparison",
                           IF current = target THEN "FAIL" ELSE "PASS",
                           IF current = target THEN "same" ELSE "differs"))

\* rule 1, _check_version_difference
CheckVersionDifference(results, current, target) ==
    LET curr_ver == ParseVersion(current)
        tgt_ver == ParseVersion(target)
        grade == IF curr_ver = <<>> \/ tgt_ver = <<>>
                 THEN (IF current = target THEN "FAIL" ELSE "PASS")
                 ELSE IF curr_ver = tgt_ver THEN "FAIL"
                 ELSE IF ListLess(tgt_ver, curr_ver) THEN "WARN"
                 ELSE "PASS"
    IN Append(results, Result("Version Comparison", grade,
                              CASE grade = "FAIL" -> "same"
                                [] grade = "WARN" -> "downgrade"
                                [] OTHER -> "differs"))

\* what the two sessions of rule 2 return: the boot variable NETCONF returned
\* (None on a failed connect, an exception or no data), and the SSH session
NetconfBoot == {NoneV, "packages.conf", "bundle.bin"}
SshBoot == {"exception", "no connection", NoneV, "packages.conf", "bundle.bin"}

\* 'packages.conf' in message
MentionsPackagesConf(message) == message = "packages.conf"

\* rule 2, _check_boot_variables
CheckBootVariables(results, nc, ssh) ==
    LET boot == IF nc # NoneV THEN nc ELSE ssh
    IN Append(results,
         CASE boot = "packages.conf" -> Result("Boot Variable Integrity", "PASS", boot)
           [] boot = "bundle.bin" -> Result("Boot Variable Integrity", "WARN", boot)
           [] boot = NoneV -> Result("Boot Variable Integrity", "WARN", "not retrieved")
           [] boot = "no connection" -> Result("Boot Variable Integrity", "WARN", "unavailable")
           [] OTHER -> Result("Boot Variable Integrity", "ERROR", "exception"))

\* free space a filesystem can report, and image sizes of the repository (0: the
\* caller passed no size), both in MiB
AvailableMb == {500, 1020, 1024, 1500, 2048, 3000, 4096}
ImageSizesMb == {0, 400, 1000, 1500}

\* round(available_bytes / (1024**3), 2), in hundredths of a GB
AvailableGb(mb) == (mb * 100 + 512) \div 1024

\* what NETCONF returns to rule 3: fs_info_list (empty on a failed connect, an
\* exception or no data), one entry per stack member
NetconfDisk == {<<>>} \cup {<<a>> : a \in AvailableMb} \cup {<<500, a>> : a \in {500, 2048}}
\* the SSH session of rule 3: `dir <filesystem>`
SshDisk ==
    {[state |-> x, mb |-> 0] : x \in {"exception", "no connection", NoneV}}
        \cup {[state |-> "data", mb |-> a] : a \in AvailableMb}

\* the grade of lines 264-299 for the filesystems NETCONF returned
NetconfDiskGrade(list) ==
    IF \E i \in DOMAIN list : AvailableGb(list[i]) < 100 THEN "FAIL"
    ELSE IF \E i \in DOMAIN list : AvailableGb(list[i]) < 200 THEN "WARN"
    ELSE "PASS"

\* _evaluate_disk_space: available_gb * 1024 against target_image_size_mb * 2
EvaluateDiskSpace(mb, size) ==
    IF size > 0
    THEN (IF AvailableGb(mb) * 1024 < size * 2 * 100 THEN "FAIL" ELSE "PASS")
    ELSE (IF AvailableGb(mb) < 100 THEN "WARN" ELSE "PASS")

\* rule 3, _check_disk_space
CheckDiskSpace(results, nc, ssh, size) ==
    Append(results,
        IF nc # <<>> THEN Result("Disk Space Thresholds", NetconfDiskGrade(nc), "netconf")
        ELSE IF ssh.state = "data"
        THEN Result("Disk Space Thresholds", EvaluateDiskSpace(ssh.mb, size), "ssh")
        ELSE Result("Disk Space Thresholds", "ERROR", ssh.state))

\* the SSH session of rule 4: `show romvar`
SshRommon == {"exception", "no connection", "error", "SWITCH_IGNORE_STARTUP_CFG=1", "clean"}

\* rule 4, _check_rommon_flags
CheckRommonFlags(results, ssh) ==
    Append(results,
        CASE ssh = "SWITCH_IGNORE_STARTUP_CFG=1" -> Result("ROMMON Flag Validation", "FAIL", ssh)
          [] ssh = "clean" -> Result("ROMMON Flag Validation", "PASS", ssh)
          [] OTHER -> Result("ROMMON Flag Validation", "ERROR", ssh))

\* target_image_filename of run_all_checks
Filenames == {"", "image.bin", "image_npe.bin"}

\* rule 5, _check_npe_image: 'npe' in target_image_filename.lower()
CheckNpeImage(results, filename) ==
    Append(results, Result("NPE Image Detection",
                           IF filename = "image_npe.bin" THEN "WARN" ELSE "PASS", filename))

\* the SSH session of rule 6: ssh.check_file_exists
SshPresence == {"exception", "no connection", "found", "missing"}

\* (mutant) rule 6 without the result of its failure branches
CheckImagePresence_Silent(results, ssh) ==
    IF ssh \in {"found", "missing"}
    THEN Append(results, Result("Image Presence", IF ssh = "found" THEN "PASS" ELSE "FAIL", ssh))
    ELSE results

\* rule 6, _check_image_presence
CheckImagePresence(results, ssh) ==
    Append(results,
        CASE ssh = "found" -> Result("Image Presence", "PASS", ssh)
          [] ssh = "missing" -> Result("Image Presence", "FAIL", ssh)
          [] OTHER -> Result("Image Presence", "ERROR", ssh))

\* the SSH session of rule 7: `show install summary` (no output, an IMG line in
\* state U, one in state C, neither)
SshCommit == {"exception", "no connection", NoneV, "uncommitted", "committed", "other"}

\* rule 7, _check_commit_status
CheckCommitStatus(results, ssh) ==
    LET is_bundle == \E i \in DOMAIN results :
                        /\ results[i].check_name = "Boot Variable Integrity"
                        /\ ~MentionsPackagesConf(results[i].message)
                        /\ results[i].result = "WARN"
    IN Append(results,
        CASE ssh = "exception" -> Result("Commit Status Check", "ERROR", ssh)
          [] ssh \in {"no connection", NoneV, "uncommitted"} ->
                Result("Commit Status Check", "WARN", ssh)
          [] ssh = "committed" -> Result("Commit Status Check", "PASS", ssh)
          [] OTHER -> Result("Commit Status Check", IF is_bundle THEN "PASS" ELSE "WARN",
                             IF is_bundle THEN "skipped" ELSE "not verified"))

\* (mutant) a result of any grade but PASS blocks
AllChecksPassed_Strict(results) == \A i \in DOMAIN results : results[i].result = "PASS"

\* PreCheckEngine.all_checks_passed
AllChecksPassed(results) ==
    \A i \in DOMAIN results : results[i].result \notin {"FAIL", "ERROR"}

\* the engine moves to the next rule with results rs; ins are the inputs it used
Rule(pc1, pc2, rs, ins) ==
    /\ engine.pc = pc1
    /\ engine' = [engine EXCEPT !.pc = pc2, !.results = rs, !.last = ins]
    /\ UNCHANGED <<now, inventory, jobs, threads, sweep, stream, sink, disc, pre, config>>

\* run_all_checks, line 27
E_Start(filename) ==
    /\ engine.pc \in {"idle", "returned"}
    /\ engine' = [pc |-> "version", filename |-> filename, results |-> <<>>, last |-> NoInputs]
    /\ UNCHANGED <<now, inventory, jobs, threads, sweep, stream, sink, disc, pre, config>>

\* run_all_checks, line 30
E_Version(current, target) ==
    Rule("version", "boot", CheckVersionDifference(engine.results, current, target),
         [NoInputs EXCEPT !.current = current, !.target = target])

\* run_all_checks, line 33
E_Boot(nc, ssh) == Rule("boot", "disk", CheckBootVariables(engine.results, nc, ssh), NoInputs)

\* run_all_checks, line 36
E_Disk(nc, ssh, size) ==
    Rule("disk", "rommon", CheckDiskSpace(engine.results, nc, ssh, size),
         [NoInputs EXCEPT !.path = IF nc # <<>> THEN "netconf" ELSE "ssh",
                          !.available = IF nc # <<>> THEN nc
                                        ELSE IF ssh.state = "data" THEN <<ssh.mb>> ELSE <<>>,
                          !.size = size])

\* run_all_checks, line 39
E_Rommon(ssh) == Rule("rommon", "npe", CheckRommonFlags(engine.results, ssh), NoInputs)

\* run_all_checks, lines 42-43
E_Npe ==
    IF engine.filename # ""
    THEN Rule("npe", "presence", CheckNpeImage(engine.results, engine.filename), NoInputs)
    ELSE Rule("npe", "presence", engine.results, NoInputs)

\* run_all_checks, lines 46-47
E_Presence(ssh) ==
    IF engine.filename # ""
    THEN Rule("presence", "commit", CheckImagePresence(engine.results, ssh), NoInputs)
    ELSE Rule("presence", "commit", engine.results, NoInputs)

\* run_all_checks, lines 50-52
E_Commit(ssh) == Rule("commit", "returned", CheckCommitStatus(engine.results, ssh), NoInputs)

\* run_all_checks as one call
RunAllChecks(in) ==
    LET r1 == CheckVersionDifference(<<>>, in.current, in.target)
        r2 == CheckBootVariables(r1, in.bootNc, in.bootSsh)
        r3 == CheckDiskSpace(r2, in.diskNc, in.diskSsh, in.size)
        r4 == CheckRommonFlags(r3, in.rommon)
        r5 == IF in.filename # "" THEN CheckNpeImage(r4, in.filename) ELSE r4
        r6 == IF in.filename # "" THEN CheckImagePresence(r5, in.presence) ELSE r5
    IN CheckCommitStatus(r6, in.commit)

\* ------------------------------------------------------- POST /api/precheck
\* request-handling threads that can be inside run_precheck at the same time
RunIds == 1..MaxRuns

\* the version text of a device record as run_all_checks receives it
CurrentVersion(ip) ==
    IF inventory[ip].facts.version = "v1" THEN <<"1", ".", "0">> ELSE <<"b">>

\* a device that answers every rule well
GoodAnswers ==
    [current |-> <<"1", ".", "0">>, target |-> <<"1", ".", "1">>,
     bootNc |-> "packages.conf", bootSsh |-> NoneV,
     diskNc |-> <<4096>>, diskSsh |-> [state |-> NoneV, mb |-> 0], size |-> 0,
     rommon |-> "clean", filename |-> "", presence |-> "found", commit |-> "committed"]

\* the answers of the device in the runs of the handler: every outcome of the
\* Image Presence session
HandlerAnswers == {[GoodAnswers EXCEPT !.presence = p] : p \in SshPresence}

\* one row of the prechecks table; run names the handler thread that wrote it
Row(ip, res, r) ==
    [ip_address |-> ip, check_name |-> res.check_name, result |-> res.result,
     message |-> res.message, run |-> r]

\* PreChecksModel.clear_checks_for_device
ClearChecksForDevice(table, ip) == SelectSeq(table, LAMBDA row : row.ip_address # ip)

\* the loop of PreChecksModel.add_check over the results of a run
AddChecks(table, ip, results, r) == table \o [i \in DOMAIN results |-> Row(ip, results[i], r)]

\* the grades of the Image Presence results of a run
PresenceGrades(results) ==
    {results[i].result : i \in {k \in DOMAIN results : results[k].check_name = "Image Presence"}}

\* (mutant) the image status loop treating ERROR like FAIL
SyncImageStatus_ErrorResets(inv, ip, results) ==
    IF "PASS" \in PresenceGrades(results) THEN SetCopied(inv, ip, "Yes")
    ELSE IF PresenceGrades(results) \cap {"FAIL", "ERROR"} # {}
    THEN SetVerified(SetCopied(inv, ip, "No"), ip, "No")
    ELSE inv

\* run_precheck, lines 75-82: the image status follows the Image Presence result
SyncImageStatus(inv, ip, results) ==
    IF "PASS" \in PresenceGrades(results) THEN SetCopied(inv, ip, "Yes")
    ELSE IF "FAIL" \in PresenceGrades(results)
    THEN SetVerified(SetCopied(inv, ip, "No"), ip, "No")
    ELSE inv

\* run_precheck, lines 30-66: the device is read, its stored results are cleared,
\* and the request ends with 400 when the device has no target image
P_Begin(r, ip) ==
    /\ pre.runs[r].pc = "idle"
    /\ inventory[ip].present
    /\ pre' = [pre EXCEPT
               !.table = ClearChecksForDevice(pre.table, ip),
               !.runs = IF inventory[ip].target_image = NoImage THEN pre.runs
                        ELSE [pre.runs EXCEPT ![r] =
                                [pc |-> "run", ip |-> ip,
                                 filename |-> inventory[ip].target_image,
                                 current |-> CurrentVersion(ip), results |-> <<>>,
                                 creds |-> config.imported]]]
    /\ UNCHANGED <<now, inventory, jobs, threads, sweep, stream, sink, disc, engine, config>>

\* run_precheck, lines 67-73: precheck.run_all_checks against the device
P_Run(r, in) ==
    /\ pre.runs[r].pc = "run"
    /\ pre' = [pre EXCEPT !.runs[r].pc = "finish",
                          !.runs[r].results =
                              RunAllChecks([in EXCEPT !.current = pre.runs[r].current,
                                                      !.filename = pre.runs[r].filename,
                                                      !.size = 0])]
    /\ UNCHANGED <<now, inventory, jobs, threads, sweep, stream, sink, disc, engine, config>>

\* run_precheck, lines 75-102: image status, stored results, the response
P_Finish(r) ==
    /\ pre.runs[r].pc = "finish"
    /\ inventory' = SyncImageStatus(inventory, pre.runs[r].ip, pre.runs[r].results)
    /\ pre' = [pre EXCEPT
               !.table = AddChecks(pre.table, pre.runs[r].ip, pre.runs[r].results, r),
               !.runs = [pre.runs EXCEPT ![r] = NoRun]]
    /\ UNCHANGED <<now, jobs, threads, sweep, stream, sink, disc, engine, config>>

\* run_precheck, lines 42-49, as a step of its own: InventoryModel.get_device,
\* whose row the handler keeps for the rest of the request
P_Read(r, ip) ==
    /\ pre.runs[r].pc = "idle"
    /\ inventory[ip].present
    /\ pre' = [pre EXCEPT !.runs[r] =
                    [pc |-> "read", ip |-> ip, filename |-> inventory[ip].target_image,
                     current |-> CurrentVersion(ip), results |-> <<>>,
                     creds |-> config.imported]]
    /\ UNCHANGED <<now, inventory, jobs, threads, sweep, stream, sink, disc, engine, config>>

\* run_precheck, lines 52-65: clear_checks_for_device, then the 400 response when
\* the row that was read holds no target image
P_Clear(r) ==
    /\ pre.runs[r].pc = "read"
    /\ pre' = [pre EXCEPT
               !.table = ClearChecksForDevice(pre.table, pre.runs[r].ip),
               !.runs[r] = IF pre.runs[r].filename = NoImage THEN NoRun
                           ELSE [pre.runs[r] EXCEPT !.pc = "run"]]
    /\ UNCHANGED <<now, inventory, jobs, threads, sweep, stream, sink, disc, engine, config>>

\* ------------------------------------------------------- POST /api/prechecks
\* run_prechecks, lines 58-68, for one address of ip_list: the device row is
\* read and kept, the stored results of the address are cleared
B_Read(ip) ==
    /\ pre.bulk.pc = "idle"
    /\ inventory[ip].present
    /\ inventory[ip].target_image # NoImage
    /\ pre' = [pre EXCEPT !.table = ClearChecksForDevice(pre.table, ip),
                          !.bulk = [pc |-> "run", ip |-> ip, device |-> inventory[ip],
                                    results |-> <<>>]]
    /\ UNCHANGED <<now, inventory, jobs, threads, sweep, stream, sink, disc, engine, config>>

\* run_prechecks, lines 99-106: precheck.run_all_checks against the device, with
\* the version and the image of the row that was read
B_Run(in) ==
    /\ pre.bulk.pc = "run"
    /\ pre' = [pre EXCEPT
               !.bulk.pc = "write",
               !.bulk.results =
                   RunAllChecks([in EXCEPT !.current = CurrentVersion(pre.bulk.ip),
                                           !.filename = pre.bulk.device.target_image])]
    /\ UNCHANGED <<now, inventory, jobs, threads, sweep, stream, sink, disc, engine, config>>

\* run_prechecks, lines 118-126: the verdict of a run
BulkStatus(results) ==
    IF ~AllChecksPassed(results) THEN "Fail"
    ELSE IF \E i \in DOMAIN results : results[i].result = "WARN" THEN "Warning"
    ELSE "Pass"

\* run_prechecks, lines 128-134: the detail text, None without FAIL and WARN
BulkDetails(results) ==
    IF \E i \in DOMAIN results : results[i].result \in {"FAIL", "WARN"} THEN "details"
    ELSE NoneV

\* run_prechecks, lines 138-151: device_data = dict(device), the row read at the
\* start of the run, with the verdict and the image status of this run; current
\* is the row as it is after the point updates of lines 107-113
DeviceDataOf(device, current, results) ==
    LET grades == PresenceGrades(results)
        d1 == [device EXCEPT !.precheck_status = BulkStatus(results),
                             !.precheck_details = BulkDetails(results)]
    IN IF "PASS" \in grades THEN [d1 EXCEPT !.image_copied = "Yes"]
       ELSE IF "FAIL" \in grades THEN [d1 EXCEPT !.image_copied = "No", !.image_verified = "No"]
       ELSE d1

\* run_prechecks, lines 107-153: the image status point updates, the stored
\* results, and InventoryModel.add_device (INSERT OR REPLACE) of device_data
B_Write ==
    /\ pre.bulk.pc = "write"
    /\ LET ip == pre.bulk.ip
           inv1 == SyncImageStatus(inventory, ip, pre.bulk.results)
       IN /\ inventory' = [inv1 EXCEPT ![ip] =
                                DeviceDataOf(pre.bulk.device, inv1[ip], pre.bulk.results)]
          /\ pre' = [pre EXCEPT !.table = AddChecks(pre.table, ip, pre.bulk.results, 0),
                                !.bulk = NoBulk]
    /\ UNCHANGED <<now, jobs, threads, sweep, stream, sink, disc, engine, config>>

\* ---------------------------------------------------------------- queries
\* JobsModel.get_active_jobs and GET /api/jobs/active: the ids of the rows with
\* status = 'RUNNING' (SQLite compares the text case-sensitively)
GetActiveJobs == {j \in JobIds : jobs[j].status = "RUNNING"}

\* JobsModel.get_active_jobs_for_device
GetActiveJobsForDevice(ip) == {j \in JobIds : jobs[j].ip = ip /\ jobs[j].status = "RUNNING"}

\* ------------------------------------------------------------ credentials
\* POST /api/settings/credentials: the new values are written to config.json
UpdateCredentials ==
    /\ config.file < MaxRotations
    /\ config' = [config EXCEPT !.file = @ + 1]
    /\ UNCHANGED <<now, inventory, jobs, threads, sweep, stream, sink, disc, engine, pre>>

\* ------------------------------------------------------------ specifications
\* the scheduler, the schedule / cancel / reschedule requests and the install worker
NextSched ==
    \/ Tick
    \/ \E ip \in Devices, img \in Images : SetTargetImage(ip, img)
    \/ \E ip \in Devices, img \in Images, hasTime \in BOOLEAN, t \in TimeInputs, tz \in TzInputs :
          ScheduleUpgrade(ip, img, hasTime, t, tz)
    \/ \E j \in JobIds : CancelJob(j)
    \/ \E j \in JobIds, t \in TimeInputs, tz \in TzInputs : RescheduleJob(j, t, tz)
    \/ SweepRead
    \/ SweepJob
    \/ \E t \in ThreadIds : UpgradeStep(t)

SpecSched == Init /\ [][NextSched]_vars

\* the bulk copy and verify requests and their workers
NextCopy ==
    \/ \E ip \in Devices, img \in Images : SetTargetImage(ip, img)
    \/ \E ips \in IpLists, g \in Images \cup {NoImage} : StartCopyJob(ips, g)
    \/ \E ips \in IpLists, g \in Images \cup {NoImage} : StartVerifyJob(ips, g)
    \/ \E j \in JobIds : CancelJob(j)
    \/ \E t \in ThreadIds : CopyStep(t)
    \/ \E t \in ThreadIds : VerifyStep(t)

SpecCopy == Init /\ [][NextCopy]_vars

\* every handler that creates jobs, the cancel request and every worker, without
\* the scheduler loop
NextJobs ==
    \/ \E ip \in Devices, img \in Images : SetTargetImage(ip, img)
    \/ \E ip \in Devices, img \in Images, hasTime \in BOOLEAN, t \in TimeInputs, tz \in TzInputs :
          ScheduleUpgrade(ip, img, hasTime, t, tz)
    \/ \E ips \in IpLists, g \in Images \cup {NoImage} : StartCopyJob(ips, g)
    \/ \E ips \in IpLists, g \in Images \cup {NoImage} : StartVerifyJob(ips, g)
    \/ \E ips \in IpLists : InstallRemoveInactive(ips)
    \/ \E j \in JobIds : CancelJob(j)
    \/ \E t \in ThreadIds : UpgradeStep(t)
    \/ \E t \in ThreadIds : CopyStep(t)
    \/ \E t \in ThreadIds : VerifyStep(t)
    \/ \E t \in ThreadIds : RemoveStep(t)

SpecJobs == Init /\ [][NextJobs]_vars

\* one client running streamed commands against a device
NextStream ==
    \/ \E prompts \in BOOLEAN : StreamCall(prompts)
    \/ \E tok \in Alphabet : DeviceEmit(tok)
    \/ StreamSleep
    \/ StreamPoll
    \/ StreamExcept
    \/ StreamReturn

SpecStream == Init /\ [][NextStream]_vars

\* the polling loop keeps running while the thread of the call is scheduled
SpecStreamFair == SpecStream /\ WF_vars(StreamSleep) /\ WF_vars(StreamPoll)

\* publishers and one tailing reader of the event queue
NextSink ==
    \/ \E job \in EventJobs : EmitJobLog(job)
    \/ ReaderStart
    \/ ReaderPoll
    \/ ReaderStop

SpecSink == Init /\ [][NextSink]_vars

\* discovery, target-image assignment and pre-check verdicts on the inventory
NextDiscover ==
    \/ \E ip \in Devices, ans \in Answers, stored1 \in BOOLEAN, stored2 \in BOOLEAN :
          Discover(ip, ans, stored1, stored2)
    \/ \E ip \in Devices, img \in Images : SetTargetImage(ip, img)
    \/ \E ip \in Devices, presence \in {"PASS", "FAIL", NoneV}, status \in {"Pass", "Fail"} :
          RunPrecheck(ip, presence, status)

SpecDiscover == Init /\ [][NextDiscover]_vars

\* a device that answers over SSH only
CliAnswers == [nc |-> FALSE, info |-> FALSE, missing |-> {}, ssh |-> TRUE]

\* the bulk copy and verify requests and their workers on an inventory that
\* discovery can extend
NextBulk ==
    \/ \E ip \in Devices : Discover(ip, CliAnswers, TRUE, TRUE)
    \/ \E ip \in Devices, img \in Images : SetTargetImage(ip, img)
    \/ \E ips \in IpLists, g \in Images \cup {NoImage} : StartCopyJob(ips, g)
    \/ \E ips \in IpLists, g \in Images \cup {NoImage} : StartVerifyJob(ips, g)
    \/ \E t \in ThreadIds : CopyStep(t)
    \/ \E t \in ThreadIds : VerifyStep(t)

SpecBulk == Init /\ [][NextBulk]_vars

\* one pre-check engine running its rules against every answer of a device
NextEngine ==
    \/ \E f \in Filenames : E_Start(f)
    \/ engine.pc = "version" /\ \E c \in SampleVersions, t \in SampleVersions : E_Version(c, t)
    \/ \E nc \in NetconfBoot, ssh \in SshBoot : E_Boot(nc, ssh)
    \/ engine.pc = "disk" /\ \E nc \in NetconfDisk, ssh \in SshDisk, size \in ImageSizesMb :
                                    E_Disk(nc, ssh, size)
    \/ \E ssh \in SshRommon : E_Rommon(ssh)
    \/ E_Npe
    \/ \E ssh \in SshPresence : E_Presence(ssh)
    \/ \E ssh \in SshCommit : E_Commit(ssh)

SpecEngine == Init /\ [][NextEngine]_vars

\* the Version Comparison rule on every pair of version strings
NextVersion ==
    \/ E_Start("image.bin")
    \/ engine.pc = "version" /\ \E c \in VersionStrings, t \in VersionStrings : E_Version(c, t)

SpecVersion == Init /\ [][NextVersion]_vars

\* run_precheck from two request threads, and the operator assigning images
NextOverlap ==
    \/ \E ip \in Devices, img \in Images : SetTargetImage(ip, img)
    \/ \E r \in RunIds, ip \in Devices : P_Begin(r, ip)
    \/ \E r \in RunIds, in \in HandlerAnswers : P_Run(r, in)
    \/ \E r \in RunIds : P_Finish(r)

SpecOverlap == Init /\ [][NextOverlap]_vars

\* run_precheck next to discovery, image assignment and the verify workers
NextPrecheck ==
    \/ Discover("d2", CliAnswers, TRUE, TRUE)
    \/ \E ip \in Devices, img \in Images : SetTargetImage(ip, img)
    \/ StartVerifyJob(<<"d1">>, NoImage)
    \/ \E t \in ThreadIds : VerifyStep(t)
    \/ P_Begin(1, "d1")
    \/ \E in \in HandlerAnswers : P_Run(1, in)
    \/ P_Finish(1)

SpecPrecheck == Init /\ [][NextPrecheck]_vars

\* the on-demand install request and its worker against every answer of the device
NextInstall ==
    \/ Tick
    \/ Discover("d2", CliAnswers, TRUE, TRUE)
    \/ \E ip \in Devices, img \in Images : SetTargetImage(ip, img)
    \/ \E ip \in Devices, img \in Images :
          ScheduleUpgrade(ip, img, FALSE, [ok |-> FALSE, wall |-> 0], [ok |-> FALSE, off |-> 0])
    \/ \E j \in JobIds : CancelJob(j)
    \/ \E t \in ThreadIds : InstallStep(t, BOOLEAN, StreamResults, InstallOutputs)

SpecInstall == Init /\ [][NextInstall]_vars

\* the operator changing the credentials next to every operation that opens a
\* device session
NextCreds ==
    \/ UpdateCredentials
    \/ \E ip \in Devices, img \in Images : SetTargetImage(ip, img)
    \/ \E ip \in Devices, img \in Images :
          ScheduleUpgrade(ip, img, FALSE, [ok |-> FALSE, wall |-> 0], [ok |-> FALSE, off |-> 0])
    \/ \E t \in ThreadIds : UpgradeStep(t)
    \/ StartCopyJob(<<"d1">>, NoImage)
    \/ \E t \in ThreadIds : CopyStep(t)
    \/ \E t \in ThreadIds : VerifyStep(t)
    \/ P_Begin(1, "d1")
    \/ P_Run(1, GoodAnswers)
    \/ P_Finish(1)
    \/ Discover("d2", CliAnswers, TRUE, TRUE)

SpecCreds == Init /\ [][NextCreds]_vars

\* the image names the operator assigns while jobs wait for their time
DispatchImages == {"imgA", "imgB"}

\* the scheduler next to an operator who schedules installs of imgA and assigns
\* target images
NextDispatch ==
    \/ Tick
    \/ \E ip \in Devices, img \in DispatchImages : SetTargetImage(ip, img)
    \/ \E ip \in Devices, hasTime \in BOOLEAN, t \in TimeInputs, tz \in TzInputs :
          ScheduleUpgrade(ip, "imgA", hasTime, t, tz)
    \/ SweepRead
    \/ SweepJob
    \/ \E t \in ThreadIds : UpgradeStep(t)

SpecDispatch == Init /\ [][NextDispatch]_vars

\* the copy and verify requests and their workers while the operator moves the
\* target image of the device between two images
NextRetarget ==
    \/ \E img \in DispatchImages : SetTargetImage("d1", img)
    \/ \E g \in DispatchImages \cup {NoImage} : StartCopyJob(<<"d1">>, g)
    \/ \E g \in DispatchImages \cup {NoImage} : StartVerifyJob(<<"d1">>, g)
    \/ \E t \in ThreadIds : CopyStep(t)
    \/ \E t \in ThreadIds : VerifyStep(t)

SpecRetarget == Init /\ [][NextRetarget]_vars

\* a bulk pre-check of the device next to the operator assigning target images
\* and to one verify job, whose worker writes the copy and the verify status
NextWriteBack ==
    \/ \E img \in DispatchImages : SetTargetImage("d1", img)
    \/ threads = <<>> /\ StartVerifyJob(<<"d1">>, NoImage)
    \/ \E t \in ThreadIds : VerifyStep(t)
    \/ B_Read("d1")
    \/ \E in \in HandlerAnswers : B_Run(in)
    \/ B_Write

SpecWriteBack == Init /\ [][NextWriteBack]_vars

\* run_precheck requests in two handler threads, with the read of the device row
\* and the clearing of its stored results as separate steps, next to the
\* operator assigning a target image
NextReject ==
    \/ Tick
    \/ SetTargetImage("d1", "imgA")
    \/ \E r \in RunIds : P_Read(r, "d1")
    \/ \E r \in RunIds : P_Clear(r)
    \/ \E r \in RunIds, in \in HandlerAnswers : P_Run(r, in)
    \/ \E r \in RunIds : P_Finish(r)

SpecReject == Init /\ [][NextReject]_vars

\* ------------------------------------------------------------------ claims
\* a step of the scheduler loop that handles the row at the head of its list
SweepHandles == sweep.rows # <<>> /\ sweep'.rows = Tail(sweep.rows)

\* the workers ever started for job j
WorkersOf(j) == {t \in ThreadIds : threads[t].job = j}

\* C1: a job created Scheduled and never rescheduled has at most one install
\* worker started for it (and so is set to Running at most once), whatever the
\* number of sweeps and the timing of the worker.
C1_SingleDispatch ==
    \A j \in JobIds :
        (jobs[j].type = "UPGRADE" /\ ~jobs[j].rescheduled) => Cardinality(WorkersOf(j)) <= 1

\* C2: when a sweep starts the worker for a due Scheduled job, the job's stored
\* status is no longer Scheduled once the worker has been started.
C2_FlipBeforeDispatch ==
    [][(SweepHandles /\ Len(threads') > Len(threads))
          => jobs'[Head(sweep.rows).job].status # "Scheduled"]_vars

\* C3: a sweep that handles a job still Scheduled whose schedule time lies more
\* than StaleThreshold before the sweep's now sets it to Missed and starts no worker.
C3_StaleMarkedMissed ==
    [][LET row == Head(sweep.rows)
       IN (/\ SweepHandles
           /\ jobs[row.job].status = "Scheduled"
           /\ row.sched.fmt # "invalid"
           /\ (sweep.now - LocalOffset) - Instant(row.sched) > StaleThreshold)
          => (jobs'[row.job].status = "Missed" /\ threads' = threads)]_vars

StatusOf(t) == jobs[threads[t].job].status
DeviceOf(t) == inventory[threads[t].ip]

CopyPhasePcs == {"start", "connect", "exists", "copy", "present"}
VerifyPhasePcs == {"v_start", "v_connect", "v_exists", "v_hash", "v_md5"}

\* C5: in a copy job, once the transfer succeeded and the presence check found the
\* file, the same worker enters the Verify phase; no step of the Copy phase writes
\* Success, and the status written when the Verify phase ends is Success or Failed.
C5_ChainResult ==
    [][\A t \in ThreadIds :
          threads[t].fn = "copy" =>
            /\ (threads[t].pc = "present" /\ threads'[t].pc \notin {"present", "done"})
                  => threads'[t].pc = "v_start"
            /\ (threads[t].pc \in CopyPhasePcs /\ threads'[t] # threads[t])
                  => (StatusOf(t)' = "Success" => StatusOf(t) = "Success")
            /\ (threads[t].pc \in VerifyPhasePcs /\ threads'[t].pc = "v_done")
                  => StatusOf(t)' \in {"Success", "Failed"}]_vars

\* the step in which worker t has the remote hash computed and compares it
HashCompared(t) ==
    /\ threads[t].pc = "v_md5"
    /\ threads'[t].pc = "v_done"
    /\ threads'[t].hashIssued

\* the remote hash was computed and equals the expected one, ignoring case
HashMatched(th) == th.actual # NoneV /\ Lower(th.actual) = Lower(th.expected)

\* C6: when the expected hash is known and the computed remote hash equals it
\* ignoring case, the Verify phase ends with verify status Yes, copy status Yes and
\* job status Success.
C6_MatchSuccess ==
    [][\A t \in ThreadIds :
          (HashCompared(t) /\ HashMatched(threads'[t])) =>
            /\ StatusOf(t)' = "Success"
            /\ DeviceOf(t).present =>
                  (DeviceOf(t)'.image_verified = "Yes" /\ DeviceOf(t)'.image_copied = "Yes")]_vars

\* C7: when the expected hash is known and the remote hash differs from it or
\* cannot be computed, the Verify phase ends with verify status Failed and job
\* status Failed.
C7_MismatchFailed ==
    [][\A t \in ThreadIds :
          (HashCompared(t) /\ ~HashMatched(threads'[t])) =>
            /\ StatusOf(t)' = "Failed"
            /\ DeviceOf(t).present => DeviceOf(t)'.image_verified = "Failed"]_vars

\* C7 witness: a worker has ended the Verify phase after a hash that differs from
\* a known expected hash, or none; job and device say Failed.
C7_Witness ==
    \E t \in ThreadIds :
        /\ threads[t].pc = "v_done"
        /\ threads[t].hashIssued
        /\ threads[t].expected \in {"ab", "AB"}
        /\ threads[t].actual \in {NoneV, "cd"}
        /\ StatusOf(t) = "Failed"
        /\ DeviceOf(t).present
        /\ DeviceOf(t).image_verified = "Failed"

\* C8: when the file is on the device and the repository has no hash for it, the
\* Verify phase sets verify status "No hash", ends the job Success, and the worker
\* stops there: it never has the remote hash computed.
C8_NoHashSoftSuccess ==
    [][\A t \in ThreadIds :
          /\ (threads[t].pc = "v_hash" /\ threads'[t].expected = NoneV) =>
                /\ threads'[t].pc = "v_done"
                /\ ~threads'[t].hashIssued
                /\ StatusOf(t)' = "Success"
                /\ DeviceOf(t).present => DeviceOf(t)'.image_verified = "No hash"
          /\ threads[t].expected = NoneV => threads'[t] = threads[t]]_vars

\* C8 witness: a worker ended the Verify phase on a missing repository hash.
C8_Witness ==
    \E t \in ThreadIds :
        /\ threads[t].pc = "v_done"
        /\ threads[t].expected = NoneV
        /\ ~threads[t].hashIssued
        /\ StatusOf(t) = "Success"
        /\ DeviceOf(t).present
        /\ DeviceOf(t).image_verified = "No hash"

\* C9: a copy worker that ends in the Copy phase (no session, failed transfer,
\* file not found afterwards, or an exception) writes job status Failed, never
\* enters the Verify phase, and no step of it up to there writes the inventory.
C9_CopyFailureStops ==
    [][\A t \in ThreadIds :
          threads[t].fn = "copy" =>
            /\ (threads[t].pc \in CopyPhasePcs /\ threads'[t] # threads[t]
                    /\ threads'[t].pc # "v_start")
                  => /\ inventory' = inventory
                     /\ threads'[t].pc = "done" => StatusOf(t)' = "Failed"
            /\ threads[t].pc = "done" => threads'[t] = threads[t]]_vars

\* C9 witness: a copy worker ended in the Copy phase; the job is Failed and the
\* device's copy status is not Yes.
C9_Witness ==
    \E t \in ThreadIds :
        /\ threads[t].fn = "copy"
        /\ threads[t].pc = "done"
        /\ StatusOf(t) = "Failed"
        /\ DeviceOf(t).present
        /\ DeviceOf(t).target_image # NoImage
        /\ DeviceOf(t).image_copied # "Yes"

\* the job statuses of spec.md 3
JobStatuses == {"Pending", "Scheduled", "Running", "Success", "Failed", "Cancelled", "Missed"}

\* C10: the status of every job record, whatever its type, is one of Pending,
\* Scheduled, Running, Success, Failed, Cancelled, Missed.
C10_StatusDomain ==
    \A j \in JobIds : jobs[j].type \in JobTypes /\ jobs[j].status \in JobStatuses

\* the positions at which a worker has returned
EndPcs == {"done", "v_done", "r_done"}

\* C11: an exception raised inside a copy, verify, install or remove-inactive
\* phase of a running job sets the job's status to Failed, and the step in which
\* a worker ends never leaves its job Running.
C11_ExceptionFailed ==
    [][\A t \in ThreadIds :
          /\ (U_Except(t) \/ C_Except(t) \/ V_Except(t) \/ R_Except(t))
                => StatusOf(t)' = "Failed"
          /\ (threads[t].pc \notin EndPcs /\ threads'[t].pc \in EndPcs)
                => StatusOf(t)' \notin {"Running", "RUNNING"}]_vars

\* C12: a streamed command that has been written to the channel always comes to
\* its return, also when the marker never shows up and the connection stays open.
C12_StreamTerminates == (stream.pc = "sleep") ~> (stream.pc = "done")

\* C13: with a prompt table, the replies written so far are one per occurrence of
\* the pattern in the output read so far; without a table no reply is written.
C13_ReplyPerOccurrence ==
    IF stream.prompts THEN Len(stream.replies) = Occurrences(stream.seen)
    ELSE stream.replies = <<>>

\* the seq numbers of a list of events
Seqs(events) == [i \in 1..Len(events) |-> events[i].seq]

\* C14: after every pass of its loop a tailing reader has received exactly the
\* events published since it started, once each and in publish order, and its
\* cursor never decreases.
C14_ReaderSeesAll ==
    [][ReaderPoll =>
          /\ Seqs(sink'.reader.received) =
                [i \in 1..(sink.published - sink.reader.started) |-> sink.reader.started + i]
          /\ sink'.reader.last_index >= sink.reader.last_index]_vars

\* C15: while a job is Running, a step that is not a step of a worker (a cancel
\* request, a reschedule request, a scheduler sweep) leaves its status Running.
C15_OwnerOnlyWrites ==
    [][\A j \in JobIds :
          (jobs[j].status = "Running" /\ threads' = threads) => jobs'[j].status = "Running"]_vars

\* the status changes of spec.md 3
AllowedEdges ==
    {<<"Pending", "Running">>, <<"Scheduled", "Running">>,
     <<"Running", "Success">>, <<"Running", "Failed">>}
        \cup ({"Pending", "Scheduled"} \X {"Cancelled", "Missed"})

\* C16: every change of a job's status is one of the allowed edges; so Cancelled
\* is entered from Pending or Scheduled only and Cancelled and Missed are final.
C16_StatusEdges ==
    [][\A j \in JobIds :
          jobs'[j].status # jobs[j].status
            => <<jobs[j].status, jobs'[j].status>> \in AllowedEdges]_vars

C18_AssignResets ==
    [][\A ip \in Devices, img \in Images :
          /\ AssignTargetImage(inventory, ip, img).ok = inventory[ip].present
          /\ SetTargetImage(ip, img) =>
                IF inventory[ip].present
                THEN /\ inventory'[ip].target_image = img
                     /\ inventory'[ip].image_copied = "No"
                     /\ inventory'[ip].image_verified = "No"
                ELSE inventory' = inventory /\ ~inventory'[ip].present]_vars

\* C18 witness: a verify worker ended on matching hashes, which set the device's
\* copy and verify status to Yes, and the device now has a target image with
\* both at No again.
C18_Witness ==
    \E t \in ThreadIds :
        /\ threads[t].pc = "v_done"
        /\ threads[t].hashIssued
        /\ HashMatched(threads[t])
        /\ \A u \in ThreadIds : u # t => threads[u].ip # threads[t].ip
        /\ DeviceOf(t).present
        /\ DeviceOf(t).target_image # NoImage
        /\ DeviceOf(t).image_copied = "No"
        /\ DeviceOf(t).image_verified = "No"

\* C19: a discover of an address whose record the previous discover stored, with
\* the device answering as it did then, leaves the record as it was
\* (last_updated apart).
C19_DiscoverIdempotent ==
    [][\A ip \in Devices, stored1 \in BOOLEAN, stored2 \in BOOLEAN :
          (/\ Discover(ip, disc.ans, stored1, stored2)
           /\ disc.ip = ip
           /\ disc.result # "failed")
          => inventory'[ip] = inventory[ip]]_vars

\* C20: in one discover of one address no field obtained over NETCONF is fetched
\* over the CLI as well, at most 2 device sessions are opened, and exactly 1 when
\* NETCONF returned every field.
C20_SessionBudget ==
    /\ disc.ncGot \cap disc.cliGot = {}
    /\ disc.sessions <= 2
    /\ disc.ncGot = Fields => disc.sessions = 1

\* ------------------------------------------------------------------ C21
\* the grades of a result list
Grades(results) == {results[i].result : i \in DOMAIN results}

\* C21: after a pre-check run, all_checks_passed() is true exactly when the run's
\* result list holds no FAIL and no ERROR; WARN results do not make it false.
C21_AllPassedIffNoFailOrError ==
    engine.pc = "returned" =>
        (AllChecksPassed(engine.results) <=> Grades(engine.results) \cap {"FAIL", "ERROR"} = {})

\* a finished run with a WARN, no FAIL and no ERROR, for which the check is true
C21_Witness ==
    /\ engine.pc = "returned"
    /\ "WARN" \in Grades(engine.results)
    /\ Grades(engine.results) \cap {"FAIL", "ERROR"} = {}
    /\ AllChecksPassed(engine.results)

\* ------------------------------------------------------------------ C22
\* list a is lower than list b: at the first index where they differ a has the
\* smaller number, or a is a proper prefix of b
LexLess(a, b) ==
    \E k \in 1..Len(b) :
        /\ Len(a) >= k - 1
        /\ \A i \in 1..(k - 1) : a[i] = b[i]
        /\ (Len(a) = k - 1 \/ a[k] < b[k])

\* component lists against which the order is compared
SampleLists == {<<0, 0>>, <<0, 1>>, <<1, 0>>, <<0, 0, 0>>, <<0, 1, 0>>, <<1, 11>>, <<10, 0>>}

\* C22: when both version strings parse, the Version Comparison grade is FAIL for
\* equal component lists, WARN when the target list is lower and PASS when it is
\* higher, and the comparison used is a total order (exactly one of equal, lower,
\* higher; transitive); when a string does not parse the grade is FAIL for equal
\* strings and PASS otherwise.
C22_VersionOrder ==
    engine.pc = "boot" =>
        LET current == engine.last.current
            target == engine.last.target
            c == ParseVersion(current)
            t == ParseVersion(target)
            grade == engine.results[1].result
        IN IF c # <<>> /\ t # <<>>
           THEN /\ grade = (IF c = t THEN "FAIL" ELSE IF LexLess(t, c) THEN "WARN" ELSE "PASS")
                /\ ListLess(t, c) <=> LexLess(t, c)
                /\ (IF c = t THEN 1 ELSE 0) + (IF ListLess(t, c) THEN 1 ELSE 0)
                        + (IF ListLess(c, t) THEN 1 ELSE 0) = 1
                /\ \A x \in SampleLists :
                        /\ ListLess(t, c) /\ ListLess(c, x) => ListLess(t, x)
                        /\ ListLess(x, t) /\ ListLess(t, c) => ListLess(x, c)
                        /\ ListLess(t, x) /\ ListLess(x, c) => ListLess(t, c)
           ELSE grade = (IF current = target THEN "FAIL" ELSE "PASS")

\* a downgrade between lists of different lengths that share their first
\* component, graded WARN
C22_Witness ==
    /\ engine.pc = "boot"
    /\ LET c == ParseVersion(engine.last.current)
           t == ParseVersion(engine.last.target)
       IN /\ Len(c) = 3 /\ Len(t) = 2
          /\ c[1] = t[1] /\ LexLess(t, c)
    /\ engine.results[1].result = "WARN"

\* ------------------------------------------------------------------ C23
\* C23: for a known image size, Disk Space is FAIL below 1 GB of available space,
\* WARN from 1 GB up to twice the image size, and PASS from twice the image size,
\* on the NETCONF path and on the CLI path.
C23_DiskGrades ==
    (engine.pc = "rommon" /\ engine.last.size > 0 /\ Len(engine.last.available) = 1) =>
        LET mb == engine.last.available[1]
        IN engine.results[3].result =
              (IF mb < 1024 THEN "FAIL"
               ELSE IF mb < 2 * engine.last.size THEN "WARN" ELSE "PASS")

\* ------------------------------------------------------------------ C24
\* the check names in rule order
RuleOrder ==
    <<"Version Comparison", "Boot Variable Integrity", "Disk Space Thresholds",
      "ROMMON Flag Validation", "NPE Image Detection", "Image Presence",
      "Commit Status Check">>

\* C24: a run with a non-empty target filename returns exactly seven results, one
\* per rule and in rule order, whatever fails inside the rules.
C24_SevenResults ==
    (engine.pc = "returned" /\ engine.filename # "") =>
        [i \in DOMAIN engine.results |-> engine.results[i].check_name] = RuleOrder

\* a finished run in which one rule met an exception, one a failed connect and
\* one missing data
C24_Witness ==
    /\ engine.pc = "returned" /\ engine.filename # ""
    /\ Len(engine.results) = 7
    /\ engine.results[6].message = "exception"
    /\ engine.results[4].message = "no connection"
    /\ engine.results[3].message = NoneV
    /\ engine.results[7].message = "exception"

\* ------------------------------------------------------------------ C25
\* the device record a run leaves for an Image Presence result graded g
AfterPresence(rec, g) ==
    [rec EXCEPT !.image_copied = IF g = "PASS" THEN "Yes" ELSE IF g = "FAIL" THEN "No" ELSE @,
                !.image_verified = IF g = "FAIL" THEN "No" ELSE @]

RowsOf(ip) == SelectSeq(pre.table, LAMBDA row : row.ip_address = ip)

\* C26: the stored pre-check results of a device are the results of one run: at
\* most one row per check name, all written by the same run, also when two runs
\* on the device overlap.
C26_OneRunStored ==
    \A ip \in Devices :
        \A i \in DOMAIN RowsOf(ip), k \in DOMAIN RowsOf(ip) :
            i # k => /\ RowsOf(ip)[i].check_name # RowsOf(ip)[k].check_name
                     /\ RowsOf(ip)[i].run = RowsOf(ip)[k].run

\* ------------------------------------------------------------------ C27
\* C27: an install worker reaches the save and install steps only through a
\* presence check that returned true; when the check does not confirm the file
\* the worker ends with its job Failed and issues neither command; a save that
\* fails leaves the job status alone and the worker goes on to the install command.
C27_InstallAfterPresence ==
    [][\A t \in ThreadIds : threads[t].fn = "upgrade" =>
          LET pc == threads[t].pc
              pc2 == threads'[t].pc
          IN /\ (pc2 = "save" /\ pc # "save") => (pc = "check" /\ threads'[t].ret = "True")
             /\ (pc2 = "install" /\ pc # "install") => pc = "save"
             /\ (pc2 = "result" /\ pc # "result") => pc = "install"
             /\ (pc = "check" /\ pc2 \notin {"check", "save"})
                    => (pc2 = "done" /\ StatusOf(t)' = "Failed")
             /\ (pc = "save" /\ threads'[t].ret = "False")
                    => (pc2 = "install" /\ StatusOf(t)' = StatusOf(t))
      ]_vars

\* a worker whose save failed, about to issue the install command on a Running job
C27_Witness ==
    \E t \in ThreadIds :
        /\ threads[t].fn = "upgrade"
        /\ threads[t].pc = "install"
        /\ threads[t].ret = "False"
        /\ StatusOf(t) = "Running"

\* ------------------------------------------------------------------ C28
\* what the install command returns when its stream fails
StreamFailures(outputs) == {ExecuteInstallCommand("failed", o) : o \in outputs}

\* C28: when the stream of the install command fails and the captured output
\* holds a reload indicator, the install step reports status RELOADING and the
\* job ends Success; when the stream fails without such an indicator the job
\* ends Failed.
C28_ReloadIsSuccess ==
    [][\A t \in ThreadIds :
          (threads[t].fn = "upgrade" /\ threads[t].pc = "result" /\ threads'[t].pc = "done") =>
             /\ threads[t].install_result \in StreamFailures({o \in InstallOutputs : "reload" \in o})
                    => (threads[t].install_result.status = "RELOADING" /\ StatusOf(t)' = "Success")
             /\ threads[t].install_result \in StreamFailures({o \in InstallOutputs : "reload" \notin o})
                    => StatusOf(t)' = "Failed"
      ]_vars

\* a worker holding the RELOADING result of an install command whose stream failed
C28_Witness ==
    \E t \in ThreadIds :
        /\ threads[t].fn = "upgrade"
        /\ threads[t].pc = "result"
        /\ threads[t].install_result = ExecuteInstallCommand("failed", {"reload"})
        /\ threads[t].install_result.status = "RELOADING"

\* ------------------------------------------------------------------ C29
\* C29: every operation that opens a device session uses the credentials that
\* config.json holds when the operation starts: the install, copy and verify
\* workers when they start, run_precheck when it starts a run, discovery when it
\* handles an address.
C29_CurrentCredentials ==
    [][/\ \A t \in ThreadIds :
            (threads[t].pc \in {"start", "v_start"}
                /\ threads'[t].pc \in {"connect", "v_connect"})
               => threads'[t].creds = config.file
       /\ \A r \in RunIds :
            (pre.runs[r].pc = "idle" /\ pre'.runs[r].pc = "run")
               => pre'.runs[r].creds = config.file
       /\ disc' # disc => disc'.creds = config.file
      ]_vars

\* ------------------------------------------------------------------ C30
\* a is a prefix of b
IsPrefix(a, b) == Len(a) <= Len(b) /\ SubSeq(b, 1, Len(a)) = a

\* C30: the log of a job is append-only from its creation on: in every step the
\* content it had is a prefix of the content it has afterwards.
C30_LogAppendOnly ==
    [][\A j \in JobIds : IsPrefix(jobs[j].log, jobs'[j].log)]_vars

C32_SessionsClosed ==
    \A t \in ThreadIds : threads[t].pc \in EndPcs => threads[t].session = "none"

\* ------------------------------------------------------------------ C33
\* C33: a job that is Cancelled before a worker took it up is not executed: no
\* step sets a Cancelled job to Running, and no worker is started for it.
C33_CancelledNotRun ==
    [][\A j \in JobIds :
          jobs[j].status = "Cancelled" =>
             /\ jobs'[j].status # "Running"
             /\ WorkersOf(j)' = WorkersOf(j)]_vars

\* ------------------------------------------------------------------ C34
\* the statuses a worker writes when it takes a job up, and when it ends
RunningStatuses == {"Running", "RUNNING"}
TerminalStatuses == {"Success", "Failed", "COMPLETED", "FAILED"}

\* C34: the two active-jobs queries return every job that a worker has marked as
\* running and that has no terminal status yet, whatever its type, and return no
\* job in a terminal status.
C34_ActiveJobsComplete ==
    \A j \in JobIds :
        /\ jobs[j].status \in RunningStatuses =>
              (j \in GetActiveJobs /\ j \in GetActiveJobsForDevice(jobs[j].ip))
        /\ jobs[j].status \in TerminalStatuses =>
              (j \notin GetActiveJobs /\ j \notin GetActiveJobsForDevice(jobs[j].ip))

\* ------------------------------------------------------------------ C35
\* C35: every job in a status that a finished worker writes (Success, Failed,
\* COMPLETED, FAILED), whatever its type, has its end timestamp set, and a job
\* that is Pending, Scheduled or Running has none.
C35_EndTimestamp ==
    \A j \in JobIds :
        /\ jobs[j].status \in TerminalStatuses => jobs[j].end_time = "timestamp"
        /\ jobs[j].status \in {"Pending", "Scheduled"} \cup RunningStatuses =>
              jobs[j].end_time = NoneV

\* ------------------------------------------------------------------ C36
\* C36: a copy or verify worker that turns the copy status or the verify status
\* of its device to Yes has handled the file that is the target image of the
\* record at that moment; together with the reset of both statuses on every
\* assignment of a target image, a status Yes then always describes the current
\* target image.
C36_StatusOfCurrentImage ==
    [][\A t \in ThreadIds :
          LET ip == threads[t].ip
          IN (/\ threads'[t] # threads[t]
              /\ \/ inventory'[ip].image_copied = "Yes" /\ inventory[ip].image_copied # "Yes"
                 \/ inventory'[ip].image_verified = "Yes" /\ inventory[ip].image_verified # "Yes")
             => threads[t].image = inventory'[ip].target_image]_vars

\* ------------------------------------------------------------------ C37
\* C37: the write-back that ends a bulk pre-check of a device leaves every column
\* of the record as it is at that moment, apart from the verdict, its detail
\* text and the image status that follows from the run's own Image Presence
\* result: a target image or a copy / verify status written since the run read
\* the record is still there.
C37_NoLostUpdate ==
    [][(pre.bulk.pc = "write" /\ pre'.bulk.pc = "idle") =>
          LET ip == pre.bulk.ip
              kept == SyncImageStatus(inventory, ip, pre.bulk.results)[ip]
          IN inventory'[ip] = [kept EXCEPT !.precheck_status = inventory'[ip].precheck_status,
                                           !.precheck_details = inventory'[ip].precheck_details]]_vars

\* ------------------------------------------------------------------ C38
\* C38: a runPrecheck request that ends with the response "no target image
\* selected" has run no rule and leaves the stored pre-check results and the
\* device records as they were.
C38_RejectedLeavesResults ==
    [][\A r \in RunIds :
          (pre.runs[r].pc = "read" /\ pre'.runs[r].pc = "idle") =>
             /\ pre'.table = pre.table
             /\ inventory' = inventory]_vars

\* ------------------------------------------------------------------ C39
\* C39: a discover of an address puts exactly one outcome entry for it into the
\* response, success or failed, whichever path the discovery took.
C39_OneOutcome ==
    disc.ip # NoneV => Len(disc.entries) = 1

====
